---- MODULE Spec2Model ----
(***************************************************************************)
(* A model of lcps: the sliding-window dip search (slidingWindow.py) and   *)
(* the batch driver (lcps_batch.py, lcps_io.py).                           *)
(*                                                                         *)
(* Numbers.  Fluxes and times are floats in the program.  The model uses   *)
(* integers and keeps every derived quantity exact by carrying its scale:  *)
(*   median2  = 2 * localMedian   (np.median averages the two middle       *)
(*                                 values of an even-sized array)          *)
(*   mad4     = 4 * MAD                                                    *)
(*   minFlux  = <<numerator, denominator>>, an unreduced fraction          *)
(* and every comparison of the program is made on cross-multiplied         *)
(* integers.  Arrays are 0-based as in numpy: At(a, k) is a[k].            *)
(*                                                                         *)
(* Inputs.  TIME is a float column whose samples are one time unit apart   *)
(* (so the division in `cadence` is a true division), minDur >= 1,         *)
(* stepSize >= 1 and Nneighb >= 1, and a series has at least one sample.   *)
(* The target identifier is opaque, and Table.write replaces an existing   *)
(* file.                                                                   *)
(***************************************************************************)
EXTENDS Integers, Sequences, FiniteSets, TLC

(***************************************************************************)
(* Bounds of the model.                                                    *)
(***************************************************************************)
MaxLen == 7         \* longest series
MaxWin == 5         \* largest winSize
MaxStep == 2        \* largest stepSize
MaxDur == 2         \* largest minDur / maxDur

\* flux samples: a baseline and two depths below it
FluxLevels == {1000, 900, 800}
\* time of the first sample; samples are one time unit apart
TimeStarts == {-2, 0}
\* Nneighb as passed by the caller
Neighbs == {1}

\* detectionThresh = ThreshNum / ThreshDen (the default 0.995)
ThreshNum == 995
ThreshDen == 1000

Max(a, b) == IF a >= b THEN a ELSE b
Min(a, b) == IF a <= b THEN a ELSE b
Abs(a) == IF a >= 0 THEN a ELSE 0 - a
At(a, k) == a[k + 1]

(***************************************************************************)
(* np.median of the values of a function f with a finite domain, times 2.  *)
(***************************************************************************)
KthSmallest(f, k) ==
    CHOOSE v \in {f[x] : x \in DOMAIN f} :
        /\ Cardinality({x \in DOMAIN f : f[x] < v}) < k
        /\ k <= Cardinality({x \in DOMAIN f : f[x] <= v})

Median2(f) ==
    LET n == Cardinality(DOMAIN f)
    IN  IF n % 2 = 1
        THEN 2 * KthSmallest(f, (n + 1) \div 2)
        ELSE KthSmallest(f, n \div 2) + KthSmallest(f, n \div 2 + 1)

(***************************************************************************)
(* get_localMedian: the indices of flux that make up `neighborhood`.       *)
(* The slice flux[iWinStart + winSize : iMax + 1] is clipped to the array. *)
(***************************************************************************)
neighborhood(len, iWinStart, winSize, Nneighb) ==
    LET Nn == IF (iWinStart < winSize) \/ (iWinStart > len - winSize)
              THEN 2 * Nneighb ELSE Nneighb
        iMin == Max(0, iWinStart - Nn * winSize)
        iMax == Min(len, iWinStart + (1 + Nn) * winSize)
    IN  {k \in 0..(len - 1) :
            \/ iMin <= k /\ k < iWinStart
            \/ iWinStart + winSize <= k /\ k < iMax + 1}

(***************************************************************************)
(* get_localMedian: the median and the MAD of the neighborhood.  The       *)
(* median of an empty array is nan.                                        *)
(***************************************************************************)
get_localMedian(fl, iWinStart, winSize, Nneighb) ==
    LET nb == neighborhood(Len(fl), iWinStart, winSize, Nneighb)
        vals == [k \in nb |-> At(fl, k)]
        med2 == Median2(vals)
        devs == [k \in nb |-> Abs(2 * At(fl, k) - med2)]
    IN  IF nb = {}
        THEN [nan |-> TRUE, median2 |-> 0, mad4 |-> 0]
        ELSE [nan |-> FALSE, median2 |-> med2, mad4 |-> Median2(devs)]

(***************************************************************************)
(* findDip.  fluxThresh = min(detectionThresh*localMedian,                 *)
(* localMedian - localMAD); fluxThresh4 is 4 * ThreshDen * fluxThresh.     *)
(* A comparison with nan is false.                                         *)
(***************************************************************************)
fluxThresh4(st) ==
    Min(ThreshNum * 2 * st.median2, ThreshDen * (2 * st.median2 - st.mad4))

IsLow(x, st) == ~st.nan /\ 4 * ThreshDen * x < fluxThresh4(st)

NoDip == [found |-> FALSE, t_egress |-> 0, minFlux |-> <<0, 1>>]

MinOf(S) == CHOOSE m \in S : \A x \in S : m <= x

findDip(timeWindow, fluxWindow, minDur, maxDur, st) ==
    LET n == Len(fluxWindow)
        nLow == Cardinality({k \in 0..(n - 1) : IsLow(At(fluxWindow, k), st)})
        loop[k \in 0..n, NloFlux \in 0..n] ==
            IF k = n THEN NoDip
            ELSE IF IsLow(At(fluxWindow, k), st)
                 THEN loop[k + 1, NloFlux + 1]
            ELSE IF minDur <= NloFlux /\ NloFlux <= maxDur
                 THEN [found |-> TRUE,
                       t_egress |-> At(timeWindow, k),
                       minFlux |-> <<2 * MinOf({At(fluxWindow, j) : j \in 0..(k - 1)}),
                                     st.median2>>]
            ELSE loop[k + 1, 0]
    IN  IF nLow >= minDur THEN loop[0, 0] ELSE NoDip

(***************************************************************************)
(* dipsearch: the parameter check, and one pass of the loop body.          *)
(***************************************************************************)
ParamsBad(p) == p.minDur > p.maxDur \/ p.winSize <= p.maxDur

\* the gate with the previously accepted egress time left out
IsNewDipIgnoringPrev(tt, p, t_egress, prev) ==
    t_egress * Len(tt) > p.minDur * (tt[Len(tt)] - tt[1])

\* (t_egress - prev_t_egress) > t_minDur, with t_minDur = minDur*(t[-1]-t[0])/len(t)
IsNewDip(tt, p, t_egress, prev) ==
    (t_egress - prev) * Len(tt) > p.minDur * (tt[Len(tt)] - tt[1])

\* Python's `if t_egress:`: None and 0.0 are both false
Truthy(r) == r.found /\ r.t_egress # 0

body(EPICno, tt, fl, p, start, prev, tab) ==
    LET timeWindow == SubSeq(tt, start + 1, start + p.winSize)
        fluxWindow == SubSeq(fl, start + 1, start + p.winSize)
        st == get_localMedian(fl, start, p.winSize, p.Nneighb)
        r == findDip(timeWindow, fluxWindow, p.minDur, p.maxDur, st)
        add == Truthy(r) /\ IsNewDip(tt, p, r.t_egress, prev)
    IN  [prev |-> IF add THEN r.t_egress ELSE prev,
         dips |-> IF add
                  THEN Append(tab, [EPIC |-> EPICno, t_egress |-> r.t_egress,
                                    minFlux |-> r.minFlux])
                  ELSE tab,
         last |-> [i |-> start, st |-> st, ret |-> r, added |-> add]]

\* xrange(0, len(flux) - winSize, stepSize) yields `start`
InRange(fl, p, start) == start < Len(fl) - p.winSize

(***************************************************************************)
(* dipsearch as a whole, as batchjob calls it: the passes of the loop from *)
(* `start` on, and the result (the table, or the ValueError of the         *)
(* parameter check) with the number of windows evaluated.                  *)
(***************************************************************************)
RECURSIVE slide(_, _, _, _, _, _, _)
slide(id, tt, fl, p, start, prev, tab) ==
    IF ~InRange(fl, p, start) THEN tab
    ELSE LET b == body(id, tt, fl, p, start, prev, tab)
         IN  slide(id, tt, fl, p, start + p.stepSize, b.prev, b.dips)

dipsearch(id, tt, fl, p) ==
    IF ParamsBad(p)
    THEN [raised |-> TRUE, dips |-> <<>>, passes |-> 0]
    ELSE [raised |-> FALSE,
          dips |-> slide(id, tt, fl, p, 0, 0, <<>>),
          passes |-> Cardinality({s \in 0..Len(fl) :
                                    s % p.stepSize = 0 /\ InRange(fl, p, s)})]

(***************************************************************************)
(* batchjob.                                                               *)
(***************************************************************************)
\* `if i % 50 == 0`
CheckpointEvery == 50

\* the file types batchjob tells apart by the end of the file name
Kinds == {"fits", "csv", "k2sff"}
\* how reading a file can fail: it cannot be opened, or its content is not
\* what the reader expects (a missing field, a malformed line)
Failures == {"unreadable", "malformed"}

\* what the call of the reader does in batchjob:
\*   open_fits catches IOError and returns None, which the tuple assignment
\*   of batchjob cannot unpack (TypeError); any other exception leaves
\*   open_fits; both end batchjob.
\*   open_csv and open_k2sff are called inside try/except: warn and continue.
Ingest(kind, failure) ==
    IF kind = "fits"
    THEN IF failure = "unreadable" THEN "TypeError" ELSE "KeyError"
    ELSE "continue"

\* lcps_output: the artifact is the table with the parameters as its header
lcps_output(logtable, p) == [header |-> p, rows |-> logtable]
Absent == [header |-> <<>>, rows |-> <<>>, absent |-> TRUE]

\* the content of the directory: every other target shows a dip
DipSeries == <<1000, 1000, 900, 900, 1000, 1000, 1000>>
FlatSeries == <<1000, 1000, 1000, 1000, 1000, 1000, 1000>>
Photometry(k) ==
    [TIME |-> [j \in 1..Len(DipSeries) |-> j],
     FLUX |-> IF k % 2 = 0 THEN DipSeries ELSE FlatSeries]

\* the scan of target k
ScanOf(k, p) == dipsearch(k, Photometry(k).TIME, Photometry(k).FLUX, p)

\* `if i % 50 == 0: lcps_output(candidates, logfile + '.part', ...)`
Checkpoint(k, tab, p, old) ==
    IF k % CheckpointEvery = 0 THEN lcps_output(tab, p) ELSE old

VARIABLES
    EPICno, t, flux, par,     \* the arguments of dipsearch
    pc,                       \* "start", "loop", "done", "ValueError"
    i,                        \* the next value of the loop variable
    prev_t_egress, dips,      \* the locals of dipsearch
    last,                     \* the last pass of the loop: window start, stats, result
    visited,                  \* the values the loop variable has taken, in order
    \* batchjob
    nFiles,                   \* len(filelist)
    bpar,                     \* the parameters of the run
    bpc,                      \* "idle", "loop", "done", or the exception that ended the run
    bi,                       \* the loop variable of batchjob
    candidates, nodips,       \* the locals of batchjob
    part, logfile,            \* the '.part' artifact and the final artifact
    failed,                   \* the targets whose ingestion failed
    scanned,                  \* the targets handed to dipsearch
    passes,                   \* the windows evaluated in the run
    ckptAt                    \* the targets passed when '.part' was last written

svars == <<EPICno, t, flux, par, pc, i, prev_t_egress, dips, last, visited>>
bvars == <<nFiles, bpar, bpc, bi, candidates, nodips, part, logfile, failed,
           scanned, passes, ckptAt>>
vars == <<svars, bvars>>

NoPass == [i |-> -1, st |-> [nan |-> TRUE, median2 |-> 0, mad4 |-> 0],
           ret |-> NoDip, added |-> FALSE]

Series == UNION {[1..n -> FluxLevels] : n \in 1..MaxLen}

Params == [winSize : 2..MaxWin, stepSize : 1..MaxStep, Nneighb : Neighbs,
           minDur : 1..MaxDur, maxDur : 1..MaxDur]

BatchIdle ==
    /\ nFiles = 0
    /\ bpar = [winSize |-> 0, stepSize |-> 0, Nneighb |-> 0, minDur |-> 0, maxDur |-> 0]
    /\ bpc = "idle"
    /\ bi = 0
    /\ candidates = <<>>
    /\ nodips = 0
    /\ part = Absent
    /\ logfile = Absent
    /\ failed = {}
    /\ scanned = {}
    /\ passes = 0
    /\ ckptAt = 0

Init ==
    /\ EPICno = "9999999"
    /\ flux \in Series
    /\ \E t0 \in TimeStarts : t = [k \in 1..Len(flux) |-> t0 + k - 1]
    /\ par \in Params
    /\ pc = "start"
    /\ i = 0
    /\ prev_t_egress = 0
    /\ dips = <<>>
    /\ last = NoPass
    /\ visited = <<>>
    /\ BatchIdle

\* lines 177-181: inconsistent parameters
Reject ==
    /\ pc = "start"
    /\ ParamsBad(par)
    /\ pc' = "ValueError"
    /\ UNCHANGED <<EPICno, t, flux, par, i, prev_t_egress, dips, last, visited, bvars>>

\* lines 183-195
Begin ==
    /\ pc = "start"
    /\ ~ParamsBad(par)
    /\ pc' = "loop"
    /\ i' = 0
    /\ prev_t_egress' = 0
    /\ dips' = <<>>
    /\ UNCHANGED <<EPICno, t, flux, par, last, visited, bvars>>

\* lines 196-207: one pass of the loop
Slide ==
    /\ pc = "loop"
    /\ InRange(flux, par, i)
    /\ LET b == body(EPICno, t, flux, par, i, prev_t_egress, dips)
       IN  /\ prev_t_egress' = b.prev
           /\ dips' = b.dips
           /\ last' = b.last
    /\ i' = i + par.stepSize
    /\ visited' = Append(visited, i)
    /\ UNCHANGED <<EPICno, t, flux, par, pc, bvars>>

\* line 208
Return ==
    /\ pc = "loop"
    /\ ~InRange(flux, par, i)
    /\ pc' = "done"
    /\ UNCHANGED <<EPICno, t, flux, par, i, prev_t_egress, dips, last, visited, bvars>>

Next == Reject \/ Begin \/ Slide \/ Return

Spec == Init /\ [][Next]_vars

(***************************************************************************)
(* The batch run.                                                          *)
(***************************************************************************)
MaxFiles == 3       \* short file lists: any target may fail
MaxFail == 1        \* failing targets in the long file list

\* the lengths of the file list: short ones, and one that passes two
\* checkpoints
FileCounts == (0..MaxFiles) \cup {2 * CheckpointEvery + 1}

BatchParams == {p \in Params : p.stepSize = 1 /\ p.winSize \in {2, 3}}

MayFail == nFiles <= MaxFiles \/ Cardinality(failed) < MaxFail

ScannerIdle ==
    /\ EPICno = "9999999"
    /\ flux = <<>>
    /\ t = <<>>
    /\ par = [winSize |-> 0, stepSize |-> 0, Nneighb |-> 0, minDur |-> 0, maxDur |-> 0]
    /\ pc = "idle"
    /\ i = 0
    /\ prev_t_egress = 0
    /\ dips = <<>>
    /\ last = NoPass
    /\ visited = <<>>

\* lines 78-81
InitBatch ==
    /\ ScannerIdle
    /\ nFiles \in FileCounts
    /\ bpar \in BatchParams
    /\ bpc = "loop"
    /\ bi = 0
    /\ candidates = <<>>
    /\ nodips = 0
    /\ part = Absent
    /\ logfile = Absent
    /\ failed = {}
    /\ scanned = {}
    /\ passes = 0
    /\ ckptAt = 0

\* lines 84-97, the reader fails and the run ends
IngestRaises ==
    /\ bpc = "loop" /\ bi < nFiles
    /\ MayFail
    /\ \E kind \in Kinds, f \in Failures :
        /\ Ingest(kind, f) # "continue"
        /\ bpc' = Ingest(kind, f)
    /\ failed' = failed \cup {bi}
    /\ UNCHANGED <<nFiles, bpar, bi, candidates, nodips, part, logfile,
                   scanned, passes, ckptAt, svars>>

\* lines 84-97, the reader fails and the loop continues with the next file
IngestSkips ==
    /\ bpc = "loop" /\ bi < nFiles
    /\ MayFail
    /\ \E kind \in Kinds, f \in Failures : Ingest(kind, f) = "continue"
    /\ failed' = failed \cup {bi}
    /\ bi' = bi + 1
    /\ UNCHANGED <<nFiles, bpar, bpc, candidates, nodips, part, logfile,
                   scanned, passes, ckptAt, svars>>

\* lines 84-103, the file is read and dipsearch raises ValueError
ScanRaises ==
    /\ bpc = "loop" /\ bi < nFiles
    /\ ScanOf(bi, bpar).raised
    /\ bpc' = "ValueError"
    /\ scanned' = scanned \cup {bi}
    /\ UNCHANGED <<nFiles, bpar, bi, candidates, nodips, part, logfile,
                   failed, passes, ckptAt, svars>>

\* lines 84-112, the file is read and scanned
ScanTarget ==
    /\ bpc = "loop" /\ bi < nFiles
    /\ ~ScanOf(bi, bpar).raised
    /\ LET r == ScanOf(bi, bpar)
       IN  /\ candidates' = candidates \o r.dips
           /\ nodips' = IF r.dips # <<>> THEN nodips + 1 ELSE nodips
           /\ passes' = passes + r.passes
           /\ part' = Checkpoint(bi, candidates', bpar, part)
    /\ ckptAt' = IF bi % CheckpointEvery = 0 THEN bi + 1 ELSE ckptAt
    /\ scanned' = scanned \cup {bi}
    /\ bi' = bi + 1
    /\ UNCHANGED <<nFiles, bpar, bpc, logfile, failed, svars>>

\* lines 114-123
FinalWrite ==
    /\ bpc = "loop" /\ bi = nFiles
    /\ logfile' = lcps_output(candidates, bpar)
    /\ part' = Absent
    /\ bpc' = "done"
    /\ UNCHANGED <<nFiles, bpar, bi, candidates, nodips, failed, scanned,
                   passes, ckptAt, svars>>

NextBatch == IngestRaises \/ IngestSkips \/ ScanRaises \/ ScanTarget \/ FinalWrite

SpecBatch == InitBatch /\ [][NextBatch]_vars

(***************************************************************************)
(* Vocabulary of the claims about the scanner.                             *)
(***************************************************************************)
N == Len(flux)
RatEq(a, b) == a[1] * b[2] = b[1] * a[2]

\* the statistics and the below-threshold samples of the window starting at s
StatsAt(s) == get_localMedian(flux, s, par.winSize, par.Nneighb)
WindowIdx(s) == s..(s + par.winSize - 1)
LowAt(s, k) == IsLow(At(flux, k), StatsAt(s))

\* the start indices of the full windows of the series
FullWindows == 0..(N - par.winSize)

\* the series is flat except for the samples a..b, which lie below the rest
FlatWithRun(a, b) ==
    \E base \in FluxLevels :
        \A k \in 0..(N - 1) :
            IF k \in a..b THEN At(flux, k) < base ELSE At(flux, k) = base

\* in window s the samples below the effective threshold are those of a..b
WindowSeesRun(s, a, b) ==
    /\ ~StatsAt(s).nan
    /\ \A k \in WindowIdx(s) : LowAt(s, k) <=> k \in a..b

\* a flat series whose only below-threshold samples are the run a..b
OneRun(a, b) ==
    /\ 0 <= a /\ a <= b /\ b <= N - 1
    /\ N >= par.winSize
    /\ FlatWithRun(a, b)
    /\ \A s \in FullWindows : WindowSeesRun(s, a, b)

Runs == {ab \in (0..(MaxLen + 1)) \X (0..(MaxLen + 1)) : ab[1] <= ab[2]}
RunMin(a, b) == MinOf({At(flux, k) : k \in a..b})

\* C1: a flat series with one run of D samples below the effective
\* threshold, minDur <= D <= maxDur, followed by at least one sample, yields
\* exactly one candidate: its egress time is the time of the first sample
\* after the run and its minFlux is the minimum of the run over the local
\* median.
C1_RoundTrip ==
    pc = "done" =>
        \A ab \in Runs :
            LET a == ab[1]
                b == ab[2]
                D == b - a + 1
            IN  (/\ OneRun(a, b)
                 /\ b + 1 <= N - 1
                 /\ par.minDur <= D /\ D <= par.maxDur)
                => /\ Len(dips) = 1
                   /\ dips[1].t_egress = At(t, b + 1)
                   /\ \E s \in FullWindows :
                        /\ a \in WindowIdx(s) /\ (b + 1) \in WindowIdx(s)
                        /\ RatEq(dips[1].minFlux,
                                 <<2 * RunMin(a, b), StatsAt(s).median2>>)

\* C2: a flat series whose only below-threshold samples are one run of D
\* samples with D < minDur or D > maxDur yields an empty candidate table.
C2_DurationBoundary ==
    pc = "done" =>
        \A ab \in Runs :
            LET a == ab[1]
                b == ab[2]
                D == b - a + 1
            IN  (OneRun(a, b) /\ (D < par.minDur \/ D > par.maxDur))
                => dips = <<>>

\* the egress time accepted before this pass; before the first acceptance a
\* sentinel that lies before the first sample
PrevAccepted == IF dips = <<>> THEN t[1] - 1 ELSE dips[Len(dips)].t_egress

\* C6: in every pass of the loop, a dip reported by findDip is appended if
\* and only if its egress time exceeds the previously accepted egress time
\* (a sentinel before the first sample when there is none) by more than
\* minDur * cadence.
C6_DedupGate ==
    [][(pc = "loop" /\ InRange(flux, par, i) /\ last'.ret.found)
        => ((dips' = Append(dips, [EPIC |-> EPICno,
                                   t_egress |-> last'.ret.t_egress,
                                   minFlux |-> last'.ret.minFlux])
             /\ last'.added)
            <=> IsNewDip(t, par, last'.ret.t_egress, PrevAccepted))]_vars

\* the maximal runs a..b of below-threshold samples of window s that are
\* ended by a sample of the window
EndedRuns(s) ==
    {ab \in Runs :
        /\ ab[1] \in WindowIdx(s) /\ (ab[2] + 1) \in WindowIdx(s)
        /\ \A k \in ab[1]..ab[2] : LowAt(s, k)
        /\ ~LowAt(s, ab[2] + 1)
        /\ (ab[1] = s \/ ~LowAt(s, ab[1] - 1))}

Qualifies(ab) == par.minDur <= ab[2] - ab[1] + 1 /\ ab[2] - ab[1] + 1 <= par.maxDur

\* the length of the run still in progress at the last sample of window s
TailRun(s) ==
    LET e == s + par.winSize - 1
        starts == {a \in WindowIdx(s) : \A k \in a..e : LowAt(s, k)}
    IN  IF starts = {} THEN 0 ELSE e - MinOf(starts) + 1

\* C7: when a run is still in progress at the last sample of the window, no
\* earlier run of the window qualified, and the run length lies in
\* [minDur, maxDur], findDip reports a dip.
C7_RunEndedByWindowEnd ==
    (/\ last.i # -1
     /\ par.minDur <= TailRun(last.i) /\ TailRun(last.i) <= par.maxDur
     /\ \A ab \in EndedRuns(last.i) : ~Qualifies(ab))
    => last.ret.found

\* C8: when findDip reports a dip, the reported run is the first run of the
\* window with a length in [minDur, maxDur], the egress time is the time of
\* the sample that ended it, and minFlux is the minimum flux over the samples
\* of that run only, divided by localMedian.
C8_DepthOfReportedRun ==
    (last.i # -1 /\ last.ret.found) =>
        \E ab \in EndedRuns(last.i) :
            /\ Qualifies(ab)
            /\ \A cd \in EndedRuns(last.i) : Qualifies(cd) => ab[1] <= cd[1]
            /\ last.ret.t_egress = At(t, ab[2] + 1)
            /\ RatEq(last.ret.minFlux,
                     <<2 * RunMin(ab[1], ab[2]), last.st.median2>>)

\* C9: for a series at least winSize long the loop variable takes exactly
\* the values 0, stepSize, 2*stepSize, ... that are <= len - winSize, and
\* every visited window has winSize samples.
C9_WindowPositions ==
    (pc = "done" /\ N >= par.winSize) =>
        /\ {visited[k] : k \in 1..Len(visited)}
             = {s \in 0..N : s % par.stepSize = 0 /\ s <= N - par.winSize}
        /\ \A k \in 1..Len(visited) :
             /\ visited[k] = (k - 1) * par.stepSize
             /\ visited[k] + par.winSize <= N

\* the neighborhood the specification describes, after the boundary doubling
NeighborhoodAsSpecified(len, iWinStart, winSize, Nneighb) ==
    LET Nn == IF (iWinStart < winSize) \/ (iWinStart > len - winSize)
              THEN 2 * Nneighb ELSE Nneighb
        iMin == Max(0, iWinStart - Nn * winSize)
        iMax == Min(len, iWinStart + (1 + Nn) * winSize)
    IN  (iMin..(iWinStart - 1)) \cup ((iWinStart + winSize)..(iMax - 1))

\* the series that differ from flux only inside the window starting at s
ModifiedInside(s) ==
    LET inside == {k \in 0..(N - 1) : k \in WindowIdx(s)}
    IN  {[k \in 1..N |-> IF (k - 1) \in inside THEN w[k - 1] ELSE flux[k]] :
            w \in [inside -> FluxLevels]}

\* C10: the indices get_localMedian uses are [iMin, windowStart) together
\* with [windowStart + winSize, iMax): none is >= iMax, none lies inside the
\* window, and the result does not change when samples inside the window are
\* modified.
C10_Neighborhood ==
    last.i # -1 =>
        /\ neighborhood(N, last.i, par.winSize, par.Nneighb)
             = NeighborhoodAsSpecified(N, last.i, par.winSize, par.Nneighb)
        /\ \A fl \in ModifiedInside(last.i) :
             get_localMedian(fl, last.i, par.winSize, par.Nneighb) = last.st

(***************************************************************************)
(* Vocabulary of the claims about the batch run.                           *)
(***************************************************************************)
\* the candidates of the targets k..(n - 1) that are not in `bad`, in order
RECURSIVE CandidatesFrom(_, _, _)
CandidatesFrom(k, n, bad) ==
    IF k >= n THEN <<>>
    ELSE (IF k \in bad THEN <<>> ELSE ScanOf(k, bpar).dips)
         \o CandidatesFrom(k + 1, n, bad)

\* C3: a target whose ingestion fails never ends the run, whatever the file
\* type and the failure: the failing targets are skipped, every other target
\* is scanned, the run reaches the final write, and the final table holds
\* the candidates of all the targets whose ingestion succeeded.
C3_IngestionFailureNotFatal ==
    ~ParamsBad(bpar) =>
        /\ bpc \in {"loop", "done"}
        /\ scanned \cap failed = {}
        /\ scanned \cup failed = 0..(bi - 1)
        /\ bpc = "done" =>
             /\ bi = nFiles
             /\ logfile = lcps_output(CandidatesFrom(0, nFiles, failed), bpar)

\* C4: with minDur > maxDur or maxDur >= winSize the run ends with the
\* configuration error for every list of targets: no window is scanned and
\* no table, checkpoint or final, is written.
C4_InvalidParametersAbort ==
    ParamsBad(bpar) =>
        /\ bpc \in {"loop", "ValueError"}
        /\ passes = 0
        /\ part = Absent
        /\ logfile = Absent

\* C5: at every point of the run at most CheckpointEvery targets have been
\* passed since '.part' was last written, for every pattern of ingestion
\* failures; after a completed run '.part' no longer exists and the final
\* artifact holds every accumulated candidate.
C5_BoundedCheckpointLoss ==
    /\ bi - ckptAt <= CheckpointEvery
    /\ bpc = "done" =>
         /\ part = Absent
         /\ logfile = lcps_output(candidates, bpar)

\* the egress time of the last row of the table
LastEgress == dips[Len(dips)].t_egress

\* the egress times of the table increase strictly, and consecutive rows lie
\* more than minDur * cadence apart
TableSeparated(tab) ==
    \A k \in 1..(Len(tab) - 1) :
        /\ tab[k].t_egress < tab[k + 1].t_egress
        /\ IsNewDip(t, par, tab[k + 1].t_egress, tab[k].t_egress)

\* C11: after any number of window steps the egress times of the accepted
\* candidates are strictly increasing in table order and consecutive
\* candidates differ by more than minSeparation = minDur * cadence; a
\* detection whose egress time is earlier than the last accepted one is
\* never appended, and rows already appended are never changed or removed.
C11_TableInvariant ==
    [][/\ TableSeparated(dips')
       /\ Len(dips') >= Len(dips)
       /\ SubSeq(dips', 1, Len(dips)) = dips
       /\ (dips # <<>> /\ last'.ret.found /\ last'.ret.t_egress < LastEgress)
            => dips' = dips]_vars

\* a later window has reported a run that ends before the last accepted
\* egress time; the report passed the truth test and the gate discarded it
C11_Witness_EarlierDetection ==
    /\ pc = "loop"
    /\ dips # <<>>
    /\ Truthy(last.ret) /\ ~last.added
    /\ last.ret.t_egress < LastEgress

\* two candidates have been accepted and a re-detection was discarded
C11_Witness_TwoRows ==
    /\ Len(dips) >= 2
    /\ last.ret.found /\ ~last.added

====
